---- MODULE Spec2Model ----
(***************************************************************************)
(* node-swatch: colour palette generation from colour-theory harmonies.    *)
(*                                                                         *)
(* The model follows src/src/utils/colorUtils.js (colour-space             *)
(* conversions), src/src/services/colorGenerator.js (the harmony engine),  *)
(* src/src/api/routes.js (the two palette endpoints) and the frontend      *)
(* duplicate of getContrastColor (src/unnamed/part_000).                   *)
(*                                                                         *)
(* JavaScript strings are sequences of one-character strings, so that      *)
(* parsing, formatting and case folding are computed and not assumed.      *)
(* JavaScript numbers are integers here; every division of the source is   *)
(* carried as an exact fraction up to the Math.round that ends it.  The    *)
(* IEEE-754 evaluation of the source agrees with the exact one except on   *)
(* some exact .5 ties, where it can round either way.                      *)
(***************************************************************************)
EXTENDS Integers, Sequences, FiniteSets, TLC

VARIABLES
    pc,                 \* "idle" | "called" | "returned": position of the caller
                        \* ("conv": conversions; "request" | "responded": routes)
    options,            \* the argument of the pending generatePalette call
    palette,            \* what the call returned, or the error it threw
    convIn,             \* conversion harness: the RGB triple under test
    convHsl,            \* conversion harness: rgbToHsl(convIn), once computed
    convBack,           \* conversion harness: hslToRgb(convHsl), once computed
    convHex,            \* conversion harness: the hex string under test
    contrastBackend,    \* conversion harness: backend getContrastColor(convHex)
    contrastFrontend,   \* conversion harness: frontend getContrastColor(convHex)
    request,            \* HTTP layer: the request a route handler is given
    response            \* HTTP layer: the response the handler produced

vars == <<pc, options, palette, convIn, convHsl, convBack, convHex,
          contrastBackend, contrastFrontend, request, response>>

Max(a, b) == IF a >= b THEN a ELSE b
Min(a, b) == IF a <= b THEN a ELSE b

(***************************************************************************)
(* JavaScript values and primitives                                        *)
(***************************************************************************)
Undefined == [type |-> "undefined", str |-> <<>>, num |-> 0]
NaN == [type |-> "NaN", str |-> <<>>, num |-> 0]
JsString(s) == [type |-> "string", str |-> s, num |-> 0]
JsNumber(n) == [type |-> "number", str |-> <<>>, num |-> n]
\* An array of strings, as a repeated query parameter is parsed.
JsArray == [type |-> "array", str |-> <<>>, num |-> 0]

\* ToBoolean: undefined, NaN, 0 and "" are falsy; every object is truthy.
Truthy(v) ==
    CASE v.type = "undefined" -> FALSE
      [] v.type = "NaN" -> FALSE
      [] v.type = "number" -> v.num # 0
      [] v.type = "string" -> Len(v.str) > 0
      [] v.type = "array" -> TRUE

\* Math.round of the fraction n/d (d > 0): nearest integer, ties upward.
MathRound(n, d) == (2 * n + d) \div (2 * d)

\* The % of JavaScript: the result takes the sign of the dividend.
JsRem(a, b) == IF a >= 0 THEN a % b ELSE 0 - ((0 - a) % b)

LowerAlphabet == <<"a","b","c","d","e","f","g","h","i","j","k","l","m",
                   "n","o","p","q","r","s","t","u","v","w","x","y","z">>
UpperAlphabet == <<"A","B","C","D","E","F","G","H","I","J","K","L","M",
                   "N","O","P","Q","R","S","T","U","V","W","X","Y","Z">>

LowerChar(c) ==
    IF \E i \in DOMAIN UpperAlphabet : UpperAlphabet[i] = c
    THEN LowerAlphabet[CHOOSE i \in DOMAIN UpperAlphabet : UpperAlphabet[i] = c]
    ELSE c

\* String.prototype.toLowerCase
toLowerCase(s) == [i \in 1..Len(s) |-> LowerChar(s[i])]

DigitChars == <<"0","1","2","3","4","5","6","7","8","9","a","b","c","d","e","f">>

\* Value of a digit character; 36 for a character that is no digit below 16.
DigitValue(c) ==
    LET lc == LowerChar(c)
    IN  IF \E i \in DOMAIN DigitChars : DigitChars[i] = lc
        THEN (CHOOSE i \in DOMAIN DigitChars : DigitChars[i] = lc) - 1
        ELSE 36

RECURSIVE ParseDigits(_, _, _, _)
\* Reads the longest run of radix digits of s from position i on.
ParseDigits(s, i, radix, acc) ==
    IF i > Len(s) \/ DigitValue(s[i]) >= radix
    THEN [value |-> acc, next |-> i]
    ELSE ParseDigits(s, i + 1, radix, acc * radix + DigitValue(s[i]))

\* parseInt(string, radix) on a string: optional sign, then the longest
\* prefix of digits; NaN when there is none.  (Leading white space and a
\* "0x" prefix, which parseInt also accepts, occur in no input used here.)
parseIntString(s, radix) ==
    LET neg == Len(s) > 0 /\ s[1] = "-"
        start == IF Len(s) > 0 /\ s[1] \in {"-", "+"} THEN 2 ELSE 1
        p == ParseDigits(s, start, radix, 0)
    IN  IF p.next = start THEN NaN
        ELSE JsNumber(IF neg THEN 0 - p.value ELSE p.value)

\* parseInt(value): the value is first converted to a string; an integer
\* number prints as its decimal digits, undefined as "undefined".
parseInt(v) ==
    CASE v.type = "number" -> v
      [] v.type = "string" -> parseIntString(v.str, 10)
      [] OTHER -> NaN

\* slice(-count): the last count elements instead of the first.
sliceFromEnd(seq, count) == SubSeq(seq, Max(1, Len(seq) - count + 1), Len(seq))

\* Array.prototype.slice(0, count) for count >= 0.
slice(seq, count) == SubSeq(seq, 1, Min(count, Len(seq)))

(***************************************************************************)
(* colorUtils.js                                                           *)
(***************************************************************************)
Rgb(r, g, b) == [r |-> r, g |-> g, b |-> b]
Hsl(h, s, l) == [h |-> h, s |-> s, l |-> l]

\* hexToRgb: strip one leading '#', parse as base 16, split by shifts.
\* NaN becomes 0 under >> (ToInt32).
hexToRgb(hex) ==
    LET cleanHex == IF Len(hex) > 0 /\ hex[1] = "#" THEN Tail(hex) ELSE hex
        parsed == parseIntString(cleanHex, 16)
        bigint == IF parsed.type = "NaN" THEN 0 ELSE parsed.num
    IN  Rgb((bigint \div 65536) % 256, (bigint \div 256) % 256, bigint % 256)

\* Number.prototype.toString(16) of an integer in 0..255.
toString16(n) ==
    IF n < 16 THEN <<DigitChars[n + 1]>>
    ELSE <<DigitChars[(n \div 16) + 1], DigitChars[(n % 16) + 1]>>

toHex(n) ==
    LET hex == toString16(Max(0, Min(255, n)))
    IN  IF Len(hex) = 1 THEN <<"0">> \o hex ELSE hex

rgbToHex(r, g, b) == <<"#">> \o toHex(r) \o toHex(g) \o toHex(b)

\* rgbToHsl on integer channels.  With M = max, m = min (as integers):
\* l = (M + m) / 510, d = (M - m) / 255, and l > 0.5 iff M + m > 255.
rgbToHsl(r, g, b) ==
    LET max == Max(r, Max(g, b))
        min == Min(r, Min(g, b))
        d == max - min
        lRounded == MathRound(100 * (max + min), 510)
    IN  IF max = min THEN Hsl(0, 0, lRounded)
        ELSE LET sRounded == IF max + min > 255
                             THEN MathRound(100 * d, 510 - max - min)
                             ELSE MathRound(100 * d, max + min)
                 hRounded ==
                     CASE max = r ->
                            MathRound(60 * (g - b) + (IF g < b THEN 360 * d ELSE 0), d)
                       [] max # r /\ max = g ->
                            MathRound(60 * (b - r) + 120 * d, d)
                       [] OTHER ->
                            MathRound(60 * (r - g) + 240 * d, d)
             IN  Hsl(hRounded, sRounded, lRounded)

\* hue2rgb with p and q in units of 1/10000 and t in units of 1/360;
\* the result is in units of 1/600000.
hue2rgb(p, q, t) ==
    LET t1 == IF t < 0 THEN t + 360 ELSE t
        t2 == IF t1 > 360 THEN t1 - 360 ELSE t1
    IN  CASE t2 < 60 -> 60 * p + (q - p) * t2
          [] t2 >= 60 /\ t2 < 180 -> 60 * q
          [] t2 >= 180 /\ t2 < 240 -> 60 * p + (q - p) * (240 - t2)
          [] OTHER -> 60 * p

\* hslToRgb with the hue offsets of the red and blue channels exchanged.
hslToRgbSwapped(h, s, l) ==
    IF s = 0
    THEN Rgb(MathRound(255 * l, 100), MathRound(255 * l, 100), MathRound(255 * l, 100))
    ELSE LET q == IF l < 50 THEN l * (100 + s) ELSE 100 * l + 100 * s - l * s
             p == 200 * l - q
         IN  Rgb(MathRound(255 * hue2rgb(p, q, h - 120), 600000),
                 MathRound(255 * hue2rgb(p, q, h), 600000),
                 MathRound(255 * hue2rgb(p, q, h + 120), 600000))

hslToRgb(h, s, l) ==
    IF s = 0
    THEN Rgb(MathRound(255 * l, 100), MathRound(255 * l, 100), MathRound(255 * l, 100))
    ELSE LET q == IF l < 50 THEN l * (100 + s) ELSE 100 * l + 100 * s - l * s
             p == 200 * l - q
         IN  Rgb(MathRound(255 * hue2rgb(p, q, h + 120), 600000),
                 MathRound(255 * hue2rgb(p, q, h), 600000),
                 MathRound(255 * hue2rgb(p, q, h - 120), 600000))

hexToHsl(hex) ==
    LET c == hexToRgb(hex)
    IN  rgbToHsl(c.r, c.g, c.b)

hslToHex(h, s, l) ==
    LET c == hslToRgb(h, s, l)
    IN  rgbToHex(c.r, c.g, c.b)

\* normalizeHue with a single remainder: hue % 360
normalizeHueSingleRem(hue) == JsRem(hue, 360)

\* normalizeHue: ((hue % 360) + 360) % 360
normalizeHue(hue) == JsRem(JsRem(hue, 360) + 360, 360)

\* Backend getContrastColor: luminance > 0.5 iff 299 r + 587 g + 114 b > 127500.
getContrastColor(hex) ==
    LET c == hexToRgb(hex)
    IN  IF 299 * c.r + 587 * c.g + 114 * c.b > 127500
        THEN <<"#","0","0","0","0","0","0">>
        ELSE <<"#","f","f","f","f","f","f">>

\* String.prototype.slice(from, to) with 0 <= from <= to.
stringSlice(s, from, to) == SubSeq(s, from + 1, Min(to, Len(s)))

\* parseInt(x, 16) of the frontend; a NaN channel makes the luminance NaN,
\* and NaN > 0.5 is false.
frontendChannel(s) == parseIntString(s, 16)

\* Frontend getContrastColor slicing from position 0, as if there were no '#'.
frontendGetContrastColorNoHash(hex) ==
    LET r == frontendChannel(stringSlice(hex, 0, 2))
        g == frontendChannel(stringSlice(hex, 2, 4))
        b == frontendChannel(stringSlice(hex, 4, 6))
    IN  IF /\ r.type = "number" /\ g.type = "number" /\ b.type = "number"
           /\ 299 * r.num + 587 * g.num + 114 * b.num > 127500
        THEN <<"#","0","0","0","0","0","0">>
        ELSE <<"#","f","f","f","f","f","f">>

\* Frontend getContrastColor: channels are sliced out of the string.
frontendGetContrastColor(hex) ==
    LET r == frontendChannel(stringSlice(hex, 1, 3))
        g == frontendChannel(stringSlice(hex, 3, 5))
        b == frontendChannel(stringSlice(hex, 5, 7))
    IN  IF /\ r.type = "number" /\ g.type = "number" /\ b.type = "number"
           /\ 299 * r.num + 587 * g.num + 114 * b.num > 127500
        THEN <<"#","0","0","0","0","0","0">>
        ELSE <<"#","f","f","f","f","f","f">>

(***************************************************************************)
(* colorGenerator.js                                                       *)
(***************************************************************************)
HComplementary == <<"c","o","m","p","l","e","m","e","n","t","a","r","y">>
HAnalogous == <<"a","n","a","l","o","g","o","u","s">>
HTriadic == <<"t","r","i","a","d","i","c">>
HSplitComplementary == <<"s","p","l","i","t","-","c","o","m","p","l","e","m","e","n","t","a","r","y">>
HTetradic == <<"t","e","t","r","a","d","i","c">>
HMonochromatic == <<"m","o","n","o","c","h","r","o","m","a","t","i","c">>
HSquare == <<"s","q","u","a","r","e">>
HDoubleComplementary == <<"d","o","u","b","l","e","-","c","o","m","p","l","e","m","e","n","t","a","r","y">>
HCustom == <<"c","u","s","t","o","m">>
HRandom == <<"r","a","n","d","o","m">>

HARMONY_TYPES == <<HComplementary, HAnalogous, HTriadic, HSplitComplementary,
                   HTetradic, HMonochromatic, HSquare, HDoubleComplementary,
                   HCustom, HRandom>>

RECURSIVE generateComplementaryFill(_, _, _, _)
\* The while loop of generateComplementary.
generateComplementaryFill(colors, baseHsl, complement, count) ==
    IF Len(colors) < count
    THEN LET variation == IF Len(colors) % 2 = 0 THEN baseHsl ELSE complement
         IN  generateComplementaryFill(
                 Append(colors, Hsl(variation.h,
                                    Max(20, variation.s - (Len(colors) * 10)),
                                    Min(80, variation.l + (Len(colors) * 8)))),
                 baseHsl, complement, count)
    ELSE colors

generateComplementary(baseHsl, count) ==
    LET complement == [baseHsl EXCEPT !.h = normalizeHue(baseHsl.h + 180)]
    IN  slice(generateComplementaryFill(<<baseHsl, complement>>, baseHsl,
                                        complement, count), count)

\* Math.ceil(i / 2) for i >= 0
ceilHalf(i) == (i + 1) \div 2

generateAnalogous(baseHsl, count) ==
    LET color(i) ==
            LET direction == IF i % 2 = 1 THEN 1 ELSE 0 - 1
                steps == ceilHalf(i)
            IN  Hsl(normalizeHue(baseHsl.h + (30 * steps * direction)),
                    Max(30, baseHsl.s - (i * 5)),
                    Max(25, Min(75, baseHsl.l + (((i % 3) - 1) * 10))))
    IN  slice([i \in 1..Max(count, 1) |-> IF i = 1 THEN baseHsl ELSE color(i - 1)],
              count)

RECURSIVE generateTriadicFill(_, _)
\* The while loop of generateTriadic: variations of the anchors, cycled.
generateTriadicFill(colors, count) ==
    IF Len(colors) < count
    THEN LET baseIndex == Len(colors) % 3
             base == colors[baseIndex + 1]
         IN  generateTriadicFill(Append(colors, Hsl(base.h,
                                           Max(30, base.s - 15),
                                           Min(75, base.l + 15))), count)
    ELSE colors

generateTriadic(baseHsl, count) ==
    slice(generateTriadicFill(<<baseHsl,
           [baseHsl EXCEPT !.h = normalizeHue(baseHsl.h + 120)],
           [baseHsl EXCEPT !.h = normalizeHue(baseHsl.h + 240)]>>, count), count)

RECURSIVE generateSplitComplementaryFill(_, _)
\* The while loop of generateSplitComplementary: variations of the anchors, cycled.
generateSplitComplementaryFill(colors, count) ==
    IF Len(colors) < count
    THEN LET baseIndex == Len(colors) % 3
             base == colors[baseIndex + 1]
         IN  generateSplitComplementaryFill(Append(colors, Hsl(base.h,
                                           Max(30, base.s - 20),
                                           Min(80, base.l + 10))), count)
    ELSE colors

generateSplitComplementary(baseHsl, count) ==
    slice(generateSplitComplementaryFill(<<baseHsl,
           [baseHsl EXCEPT !.h = normalizeHue(baseHsl.h + 150)],
           [baseHsl EXCEPT !.h = normalizeHue(baseHsl.h + 210)]>>, count), count)

RECURSIVE generateTetradicFill(_, _)
\* The while loop of generateTetradic: variations of the anchors, cycled.
generateTetradicFill(colors, count) ==
    IF Len(colors) < count
    THEN LET baseIndex == Len(colors) % 4
             base == colors[baseIndex + 1]
         IN  generateTetradicFill(Append(colors, Hsl(base.h,
                                           Max(30, base.s - 15),
                                           Min(75, base.l + 12))), count)
    ELSE colors

generateTetradic(baseHsl, count) ==
    slice(generateTetradicFill(<<baseHsl,
           [baseHsl EXCEPT !.h = normalizeHue(baseHsl.h + 60)],
           [baseHsl EXCEPT !.h = normalizeHue(baseHsl.h + 180)],
           [baseHsl EXCEPT !.h = normalizeHue(baseHsl.h + 240)]>>, count), count)

\* generateMonochromatic without the ceiling of 90 on the saturation.
generateMonochromaticNoCeiling(baseHsl, count) ==
    LET color(i) ==
            LET saturationVariation ==
                    (IF i % 2 = 0 THEN 0 - 10 ELSE 10) * ceilHalf(i)
            IN  Hsl(baseHsl.h,
                    Max(20, baseHsl.s + saturationVariation),
                    Max(20, Min(80, 20 + ((i * 60) \div count))))
    IN  slice([i \in 1..Max(count, 1) |-> IF i = 1 THEN baseHsl ELSE color(i - 1)],
              count)

\* lightnessStep = 60 / count; i * lightnessStep is the fraction 60 i / count,
\* an integer for every count in 2..6.
generateMonochromatic(baseHsl, count) ==
    LET color(i) ==
            LET saturationVariation ==
                    (IF i % 2 = 0 THEN 0 - 10 ELSE 10) * ceilHalf(i)
            IN  Hsl(baseHsl.h,
                    Max(20, Min(90, baseHsl.s + saturationVariation)),
                    Max(20, Min(80, 20 + ((i * 60) \div count))))
    IN  slice([i \in 1..Max(count, 1) |-> IF i = 1 THEN baseHsl ELSE color(i - 1)],
              count)

RECURSIVE generateSquareFill(_, _)
\* The while loop of generateSquare: variations of the anchors, cycled.
generateSquareFill(colors, count) ==
    IF Len(colors) < count
    THEN LET baseIndex == Len(colors) % 4
             base == colors[baseIndex + 1]
         IN  generateSquareFill(Append(colors, Hsl(base.h,
                                           Max(30, base.s - 20),
                                           Min(75, base.l + 15))), count)
    ELSE colors

generateSquare(baseHsl, count) ==
    slice(generateSquareFill(<<baseHsl,
           [baseHsl EXCEPT !.h = normalizeHue(baseHsl.h + 90)],
           [baseHsl EXCEPT !.h = normalizeHue(baseHsl.h + 180)],
           [baseHsl EXCEPT !.h = normalizeHue(baseHsl.h + 270)]>>, count), count)

RECURSIVE generateDoubleComplementaryFill(_, _)
\* The while loop of generateDoubleComplementary: variations of the anchors, cycled.
generateDoubleComplementaryFill(colors, count) ==
    IF Len(colors) < count
    THEN LET baseIndex == Len(colors) % 4
             base == colors[baseIndex + 1]
         IN  generateDoubleComplementaryFill(Append(colors, Hsl(base.h,
                                           Max(30, base.s - 15),
                                           Min(80, base.l + 10))), count)
    ELSE colors

generateDoubleComplementary(baseHsl, count) ==
    slice(generateDoubleComplementaryFill(<<baseHsl,
           [baseHsl EXCEPT !.h = normalizeHue(baseHsl.h + 30)],
           [baseHsl EXCEPT !.h = normalizeHue(baseHsl.h + 180)],
           [baseHsl EXCEPT !.h = normalizeHue(baseHsl.h + 210)]>>, count), count)

generateCustom(baseHsl, count, angle) ==
    LET color(i) ==
            Hsl(normalizeHue(baseHsl.h + (angle * i)),
                Max(30, baseHsl.s - (i * 5)),
                Max(25, Min(75, baseHsl.l + (((i % 3) - 1) * 8))))
    IN  slice([i \in 1..Max(count, 1) |-> IF i = 1 THEN baseHsl ELSE color(i - 1)],
              count)

\* generateRandom: the base, then count - 1 calls of randomHsl, whose
\* results are draws[1], draws[2], ... in call order.  No slice.
generateRandom(baseHsl, count, draws) ==
    [i \in 1..Max(count, 1) |-> IF i = 1 THEN baseHsl ELSE draws[i - 1]]

\* role with the accents numbered from the array position plus one.
roleOneBased(index) ==
    IF index = 0 THEN "primary" ELSE "accent-" \o ToString(index + 1)

\* role: index === 0 ? 'primary' : `accent-${index}`
role(index) == IF index = 0 THEN "primary" ELSE "accent-" \o ToString(index)

\* What a call that threw a TypeError leaves behind; also the value of
\* palette while no call has returned.
NoPalette == [threw |-> FALSE, harmony |-> <<>>, count |-> 0,
              baseColor |-> <<>>, colors |-> <<>>]
TypeError == [NoPalette EXCEPT !.threw = TRUE]

\* An options object, and the omitted argument.
Options(harmony, count, baseColor, angle) ==
    [type |-> "object", harmony |-> harmony, count |-> count,
     baseColor |-> baseColor, angle |-> angle]
NoOptions == [type |-> "undefined", harmony |-> Undefined, count |-> Undefined,
              baseColor |-> Undefined, angle |-> Undefined]

\* Destructuring default: used when the property is undefined.
withDefault(v, default) == IF v.type = "undefined" THEN default ELSE v

\* colorCount without its upper clamp: Math.max(2, parseInt(count) || 5)
colorCountNoUpperClamp(count) ==
    LET parsed == parseInt(count)
    IN  Max(2, IF Truthy(parsed) THEN parsed.num ELSE 5)

\* colorCount = Math.max(2, Math.min(6, parseInt(count) || 5))
colorCount(count) ==
    LET parsed == parseInt(count)
    IN  Max(2, Min(6, IF Truthy(parsed) THEN parsed.num ELSE 5))

\* The switch of generatePalette on harmony.toLowerCase().
hslColorsFor(lower, baseHsl, count, angle, draws) ==
    CASE lower = HComplementary -> generateComplementary(baseHsl, count)
      [] lower = HAnalogous -> generateAnalogous(baseHsl, count)
      [] lower = HTriadic -> generateTriadic(baseHsl, count)
      [] lower = HSplitComplementary -> generateSplitComplementary(baseHsl, count)
      [] lower = HTetradic -> generateTetradic(baseHsl, count)
      [] lower = HMonochromatic -> generateMonochromatic(baseHsl, count)
      [] lower = HSquare -> generateSquare(baseHsl, count)
      [] lower = HDoubleComplementary -> generateDoubleComplementary(baseHsl, count)
      [] lower = HCustom -> generateCustom(baseHsl, count, angle)
      [] OTHER -> generateRandom(baseHsl, count, draws)

\* generatePalette.  draws holds the results of the calls of randomHsl in
\* call order: first the base when no baseColor is given, then the colours
\* of generateRandom.  Destructuring undefined, hex.replace on a value that
\* is no string and harmony.toLowerCase on a value that is no string throw.
generatePalette(opts, draws) ==
    IF opts.type = "undefined" THEN TypeError
    ELSE
    LET harmony == withDefault(opts.harmony, JsString(HRandom))
        count == withDefault(opts.count, JsNumber(5))
        baseColor == opts.baseColor
        angle == withDefault(opts.angle, JsNumber(45))
        n == colorCount(count)
    IN  IF Truthy(baseColor) /\ baseColor.type # "string" THEN TypeError
        ELSE IF harmony.type # "string" THEN TypeError
        ELSE
        LET baseHsl == IF Truthy(baseColor) THEN hexToHsl(baseColor.str)
                       ELSE draws[1]
            rest == IF Truthy(baseColor) THEN draws ELSE Tail(draws)
            lower == toLowerCase(harmony.str)
            hslColors == hslColorsFor(lower, baseHsl, n, angle.num, rest)
            colors == [i \in 1..Len(hslColors) |->
                          [hex |-> hslToHex(hslColors[i].h, hslColors[i].s,
                                            hslColors[i].l),
                           hsl |-> hslColors[i],
                           role |-> role(i - 1)]]
        IN  [threw |-> FALSE, harmony |-> lower, count |-> n,
             baseColor |-> colors[1].hex, colors |-> colors]

\* How many times a call of generatePalette(opts) calls randomHsl.
randomCalls(opts) ==
    IF \/ opts.type = "undefined"
       \/ Truthy(opts.baseColor) /\ opts.baseColor.type # "string"
    THEN 0
    ELSE LET harmony == withDefault(opts.harmony, JsString(HRandom))
             forBase == IF Truthy(opts.baseColor) THEN 0 ELSE 1
         IN  IF harmony.type # "string" THEN forBase
             ELSE IF \E i \in 1..9 : HARMONY_TYPES[i] = toLowerCase(harmony.str)
                  THEN forBase
                  ELSE forBase + colorCount(withDefault(opts.count, JsNumber(5))) - 1

(***************************************************************************)
(* Inputs                                                                  *)
(***************************************************************************)
\* Integer counts tried: -NegCounts .. MaxCountArg.
NegCounts == 1
MaxCountArg == 7

\* Channel values of the conversion harness: multiples of GridStep, and 255.
GridStep == 51

HarmonyArgs ==
    {Undefined, JsNumber(7)}
    \cup {JsString(HARMONY_TYPES[i]) : i \in DOMAIN HARMONY_TYPES}
    \cup {JsString(<<"T","r","i","a","d","i","c">>),
          JsString(<<"n","o","n","s","e","n","s","e">>)}

CountArgs ==
    {Undefined, JsString(<<"a","b","c">>), JsString(<<"3">>)}
    \cup {JsNumber(n) : n \in (0 - NegCounts)..MaxCountArg}

BaseHexSamples ==
    { <<"#","3","4","9","8","d","b">>, <<"#","f","f","0","0","0","1">>,
      <<"#","f","f","0","0","0","0">>, <<"#","8","0","8","0","8","0">>,
      <<"#","0","0","0","0","0","0">>, <<"#","f","f","f","f","f","f">>,
      <<"#","F","F","A","A","0","0">>,
      <<"#","x","y","z">>, <<"f","f","f">> }

BaseColorArgs ==
    {Undefined, JsNumber(123)} \cup {JsString(h) : h \in BaseHexSamples}

AngleArgs == {Undefined} \cup {JsNumber(a) : a \in {0 - 30, 0, 405}}

OptionsArgs ==
    {NoOptions}
    \cup {Options(h, c, b, a) : h \in HarmonyArgs, c \in CountArgs,
                                b \in BaseColorArgs, a \in AngleArgs}

\* Results of randomHsl tried: the corners of h in 0..359, s in 50..89,
\* l in 35..64 (Math.floor(Math.random() * 360) and so on).
RandomHslSamples == {Hsl(0, 50, 35), Hsl(359, 89, 64)}

ConvChannels == {c \in 0..255 : c % GridStep = 0} \cup {255}

ConvRgbSamples ==
    {Rgb(52, 152, 219), Rgb(255, 0, 1), Rgb(0, 0, 2), Rgb(2, 228, 230),
     Rgb(218, 58, 247), Rgb(128, 128, 128)}

ConvRgbInputs ==
    {Rgb(r, g, b) : r \in ConvChannels, g \in ConvChannels, b \in ConvChannels}
    \cup ConvRgbSamples

\* String.prototype.toUpperCase
toUpperCase(s) ==
    [i \in 1..Len(s) |->
        IF \E k \in DOMAIN LowerAlphabet : LowerAlphabet[k] = s[i]
        THEN UpperAlphabet[CHOOSE k \in DOMAIN LowerAlphabet : LowerAlphabet[k] = s[i]]
        ELSE s[i]]

NoHsl == Hsl(0 - 1, 0 - 1, 0 - 1)
NoRgb == Rgb(0 - 1, 0 - 1, 0 - 1)

(***************************************************************************)
(* The engine called by its callers                                        *)
(***************************************************************************)
ConvIdle ==
    /\ convIn = NoRgb /\ convHsl = NoHsl /\ convBack = NoRgb
    /\ convHex = <<>> /\ contrastBackend = <<>> /\ contrastFrontend = <<>>

\* No request is being handled.
NoRequest == [route |-> "none", param |-> <<>>,
              query |-> [harmony |-> Undefined, count |-> Undefined,
                         baseColor |-> Undefined, angle |-> Undefined]]
NoResponse == [status |-> 0, error |-> "", validTypes |-> <<>>, body |-> NoPalette]
HttpIdle == request = NoRequest /\ response = NoResponse

Init ==
    /\ pc = "idle"
    /\ options = NoOptions
    /\ palette = NoPalette
    /\ ConvIdle
    /\ HttpIdle

\* A caller calls generatePalette(opts).
Invoke(opts) ==
    /\ pc = "idle"
    /\ pc' = "called"
    /\ options' = opts
    /\ UNCHANGED <<palette, convIn, convHsl, convBack, convHex, contrastBackend,
                   contrastFrontend,
                   request, response>>

\* The call runs to its return or its throw.
GeneratePalette(draws) ==
    /\ pc = "called"
    /\ pc' = "returned"
    /\ palette' = generatePalette(options, draws)
    /\ UNCHANGED <<options, convIn, convHsl, convBack, convHex, contrastBackend,
                   contrastFrontend,
                   request, response>>

\* The caller has used the result; each request is independent.
Return ==
    /\ pc = "returned"
    /\ pc' = "idle"
    /\ options' = NoOptions
    /\ palette' = NoPalette
    /\ UNCHANGED <<convIn, convHsl, convBack, convHex, contrastBackend,
                   contrastFrontend,
                   request, response>>

Next ==
    \/ \E opts \in OptionsArgs : Invoke(opts)
    \/ \E draws \in [1..randomCalls(options) -> RandomHslSamples] :
            GeneratePalette(draws)
    \/ Return

Spec == Init /\ [][Next]_vars

(***************************************************************************)
(* The conversions applied to bounded inputs                               *)
(***************************************************************************)
ConvInit ==
    /\ pc = "conv"
    /\ options = NoOptions
    /\ palette = NoPalette
    /\ convIn \in ConvRgbInputs
    /\ convHsl = NoHsl
    /\ convBack = NoRgb
    /\ convHex \in {rgbToHex(convIn.r, convIn.g, convIn.b),
                    toUpperCase(rgbToHex(convIn.r, convIn.g, convIn.b))}
    /\ contrastBackend = <<>>
    /\ contrastFrontend = <<>>
    /\ HttpIdle

ApplyRgbToHsl ==
    /\ pc = "conv" /\ convHsl = NoHsl
    /\ convHsl' = rgbToHsl(convIn.r, convIn.g, convIn.b)
    /\ UNCHANGED <<pc, options, palette, convIn, convBack, convHex,
                   contrastBackend, contrastFrontend,
                   request, response>>

ApplyHslToRgb ==
    /\ pc = "conv" /\ convHsl # NoHsl /\ convBack = NoRgb
    /\ convBack' = hslToRgb(convHsl.h, convHsl.s, convHsl.l)
    /\ UNCHANGED <<pc, options, palette, convIn, convHsl, convHex,
                   contrastBackend, contrastFrontend,
                   request, response>>

ApplyBackendContrast ==
    /\ pc = "conv" /\ contrastBackend = <<>>
    /\ contrastBackend' = getContrastColor(convHex)
    /\ UNCHANGED <<pc, options, palette, convIn, convHsl, convBack, convHex,
                   contrastFrontend,
                   request, response>>

ApplyFrontendContrast ==
    /\ pc = "conv" /\ contrastFrontend = <<>>
    /\ contrastFrontend' = frontendGetContrastColor(convHex)
    /\ UNCHANGED <<pc, options, palette, convIn, convHsl, convBack, convHex,
                   contrastBackend,
                   request, response>>

ConvNext ==
    \/ ApplyRgbToHsl
    \/ ApplyHslToRgb
    \/ ApplyBackendContrast
    \/ ApplyFrontendContrast

SpecConv == ConvInit /\ [][ConvNext]_vars

(***************************************************************************)
(* routes.js: the two palette endpoints                                    *)
(***************************************************************************)
\* String.prototype.replace(c, ''): removes the first occurrence of c.
replaceFirst(s, c) ==
    IF \E i \in 1..Len(s) : s[i] = c
    THEN LET i == CHOOSE k \in 1..Len(s) :
                      s[k] = c /\ \A j \in 1..(k - 1) : s[j] # c
         IN  SubSeq(s, 1, i - 1) \o SubSeq(s, i + 1, Len(s))
    ELSE s

\* Array.prototype.includes
includes(array, x) == \E i \in DOMAIN array : array[i] = x

\* count ? parseInt(count) : 5
routeCount(count) == IF Truthy(count) THEN parseInt(count) ELSE JsNumber(5)

\* baseColor ? `#${baseColor.replace('#', '')}` : undefined
routeBaseColor(baseColor) ==
    IF Truthy(baseColor)
    THEN JsString(<<"#">> \o replaceFirst(baseColor.str, "#"))
    ELSE Undefined

\* angle ? parseInt(angle) : 45
routeAngle(angle) == IF Truthy(angle) THEN parseInt(angle) ELSE JsNumber(45)

\* baseColor.replace is not a function when the parameter was repeated.
routeThrows(query) == Truthy(query.baseColor) /\ query.baseColor.type # "string"

\* The options GET /palette passes: harmony || 'random', and the rest.
paletteRouteOptions(query) ==
    Options(IF Truthy(query.harmony) THEN query.harmony ELSE JsString(HRandom),
            routeCount(query.count), routeBaseColor(query.baseColor),
            routeAngle(query.angle))

\* The options GET /palette/:harmony passes: the path parameter as given.
harmonyRouteOptions(param, query) ==
    Options(JsString(param), routeCount(query.count),
            routeBaseColor(query.baseColor), routeAngle(query.angle))

\* res.json(palette); an exception thrown by a handler is answered by the
\* framework's default error handler with status 500.
responseOf(p) ==
    IF p.threw
    THEN [status |-> 500, error |-> "TypeError", validTypes |-> <<>>, body |-> NoPalette]
    ELSE [status |-> 200, error |-> "", validTypes |-> <<>>, body |-> p]

\* res.status(400).json({error: 'Invalid harmony type', validTypes: HARMONY_TYPES})
invalidHarmonyResponse ==
    [status |-> 400, error |-> "Invalid harmony type",
     validTypes |-> HARMONY_TYPES, body |-> NoPalette]

Request(route, param, harmony, count, baseColor, angle) ==
    [route |-> route, param |-> param,
     query |-> [harmony |-> harmony, count |-> count,
                baseColor |-> baseColor, angle |-> angle]]

\* Path parameters tried: every identifier, a mixed-case one, an unknown one.
PathParams ==
    {HARMONY_TYPES[i] : i \in DOMAIN HARMONY_TYPES}
    \cup {<<"T","r","i","a","d","i","c">>, <<"n","o","n","s","e","n","s","e">>}

\* Query parameters are strings, absent, or arrays (a repeated parameter).
\* Angles tried are numeric strings: a NaN angle is outside this model.
QueryHarmonies ==
    {Undefined, JsArray, JsString(<<>>), JsString(HTriadic),
     JsString(HMonochromatic), JsString(HRandom),
     JsString(<<"T","r","i","a","d","i","c">>),
     JsString(<<"n","o","n","s","e","n","s","e">>)}
QueryCounts ==
    {Undefined, JsString(<<"0">>), JsString(<<"3">>), JsString(<<"7">>),
     JsString(<<"a","b","c">>)}
QueryBaseColors ==
    {Undefined, JsArray, JsString(<<"3","4","9","8","d","b">>),
     JsString(<<"#","f","f","0","0","0","1">>)}
QueryAngles == {Undefined, JsString(<<"9","0">>), JsString(<<"-","3","0">>)}

Requests ==
    {Request("query", <<>>, h, c, b, a) :
        h \in QueryHarmonies, c \in QueryCounts, b \in QueryBaseColors,
        a \in QueryAngles}
    \cup {Request("path", h, Undefined, c, b, a) :
        h \in PathParams, c \in QueryCounts, b \in QueryBaseColors,
        a \in QueryAngles}

\* A request has arrived at one of the two endpoints.
RoutesInit ==
    /\ pc = "request"
    /\ request \in Requests
    /\ response = NoResponse
    /\ options = NoOptions
    /\ palette = NoPalette
    /\ ConvIdle

\* router.get('/palette', ...)
GetPalette(draws) ==
    /\ pc = "request" /\ request.route = "query"
    /\ pc' = "responded"
    /\ IF routeThrows(request.query)
       THEN /\ options' = NoOptions
            /\ palette' = TypeError
       ELSE /\ options' = paletteRouteOptions(request.query)
            /\ palette' = generatePalette(options', draws)
    /\ response' = responseOf(palette')
    /\ UNCHANGED <<request, convIn, convHsl, convBack, convHex,
                   contrastBackend, contrastFrontend>>

\* router.get('/palette/:harmony', ...)
GetPaletteHarmony(draws) ==
    /\ pc = "request" /\ request.route = "path"
    /\ pc' = "responded"
    /\ IF ~includes(HARMONY_TYPES, toLowerCase(request.param))
       THEN /\ options' = NoOptions
            /\ palette' = NoPalette
            /\ response' = invalidHarmonyResponse
       ELSE /\ IF routeThrows(request.query)
               THEN /\ options' = NoOptions
                    /\ palette' = TypeError
               ELSE /\ options' = harmonyRouteOptions(request.param, request.query)
                    /\ palette' = generatePalette(options', draws)
            /\ response' = responseOf(palette')
    /\ UNCHANGED <<request, convIn, convHsl, convBack, convHex,
                   contrastBackend, contrastFrontend>>

\* How many times the handling of a request calls randomHsl.
routeRandomCalls(req) ==
    IF routeThrows(req.query) THEN 0
    ELSE IF req.route = "query" THEN randomCalls(paletteRouteOptions(req.query))
    ELSE IF includes(HARMONY_TYPES, toLowerCase(req.param))
         THEN randomCalls(harmonyRouteOptions(req.param, req.query))
         ELSE 0

RoutesNext ==
    \/ \E draws \in [1..routeRandomCalls(request) -> RandomHslSamples] :
           GetPalette(draws)
    \/ \E draws \in [1..routeRandomCalls(request) -> RandomHslSamples] :
           GetPaletteHarmony(draws)

SpecRoutes == RoutesInit /\ [][RoutesNext]_vars

(***************************************************************************)
(* Properties                                                              *)
(***************************************************************************)
\* A call of generatePalette has returned a palette (it did not throw).
Returned == pc = "returned" /\ ~palette.threw

HexDigitChars ==
    {DigitChars[i] : i \in DOMAIN DigitChars} \cup {"A", "B", "C", "D", "E", "F"}

\* '#' followed by 6 hex digits.
WellFormedHex(v) ==
    /\ v.type = "string"
    /\ Len(v.str) = 7
    /\ v.str[1] = "#"
    /\ \A i \in 2..7 : v.str[i] \in HexDigitChars

\* The base colour is a well-formed hex string, or absent.
BaseWellFormedOrAbsent ==
    options.baseColor.type = "undefined" \/ WellFormedHex(options.baseColor)

Black == <<"#","0","0","0","0","0","0">>
White == <<"#","f","f","f","f","f","f">>

Abs(x) == IF x >= 0 THEN x ELSE 0 - x

\* C1: whatever count and harmony are passed, a returned palette has between
\* 2 and 6 colours, and as many as its count field says.
C1_PaletteLength ==
    Returned =>
        /\ Len(palette.colors) >= 2
        /\ Len(palette.colors) <= 6
        /\ Len(palette.colors) = palette.count

\* C1 witness: a palette was returned for the non-numeric count "abc".
C1_Witness ==
    /\ Returned
    /\ options.count = JsString(<<"a","b","c">>)
    /\ Len(palette.colors) = 5

\* C2: the palette has exactly min(6, max(2, c)) colours for every integer
\* count c, and exactly 5 for a missing or non-numeric count.
C2_ClampedCount ==
    Returned =>
        /\ options.count.type = "number" =>
               Len(palette.colors) = Min(6, Max(2, options.count.num))
        /\ options.count.type = "undefined" => Len(palette.colors) = 5
        /\ options.count = JsString(<<"a","b","c">>) => Len(palette.colors) = 5

\* C3: an unrecognized harmony gives a palette built by the random strategy
\* whose harmony field is "random"; a recognized one gives the lowercased
\* input as harmony field.
C3_HarmonyField ==
    Returned =>
        LET given == IF options.harmony.type = "undefined" THEN HRandom
                     ELSE options.harmony.str
            recognized == \E i \in DOMAIN HARMONY_TYPES :
                              HARMONY_TYPES[i] = toLowerCase(given)
        IN  IF recognized
            THEN palette.harmony = toLowerCase(given)
            ELSE /\ palette.harmony = HRandom
                 /\ \A i \in 2..Len(palette.colors) :
                        palette.colors[i].hsl \in RandomHslSamples

\* C4: with a well-formed or absent base colour, every colour of a returned
\* palette, the first included, has its hue in [0, 360).
C4_HueRange ==
    (Returned /\ BaseWellFormedOrAbsent) =>
        \A i \in DOMAIN palette.colors :
            /\ palette.colors[i].hsl.h >= 0
            /\ palette.colors[i].hsl.h < 360

\* C5: with a well-formed or absent base colour, every colour of a returned
\* palette has saturation and lightness in [0, 100].
C5_SatLightRange ==
    (Returned /\ BaseWellFormedOrAbsent) =>
        \A i \in DOMAIN palette.colors :
            /\ palette.colors[i].hsl.s >= 0 /\ palette.colors[i].hsl.s <= 100
            /\ palette.colors[i].hsl.l >= 0 /\ palette.colors[i].hsl.l <= 100

\* C5 witness: a six-colour complementary palette of pure white, whose
\* variations run into the lightness ceiling and the saturation floor.
C5_Witness ==
    /\ Returned
    /\ options.baseColor = JsString(White)
    /\ palette.harmony = HComplementary
    /\ Len(palette.colors) = 6
    /\ palette.colors[6].hsl.l = 80
    /\ palette.colors[6].hsl.s = 20

AccentRoles == <<"accent-1", "accent-2", "accent-3", "accent-4", "accent-5">>

\* C6: the first colour of a returned palette has role "primary" and is the
\* unmodified base (hexToHsl of the given baseColor, else the random base),
\* the colour at index i >= 1 has role "accent-i", and the baseColor field
\* is the hex of the first colour.
C6_RolesAndBase ==
    Returned =>
        /\ palette.colors[1].role = "primary"
        /\ IF Truthy(options.baseColor)
           THEN palette.colors[1].hsl = hexToHsl(options.baseColor.str)
           ELSE palette.colors[1].hsl \in RandomHslSamples
        /\ \A i \in 2..Len(palette.colors) :
               palette.colors[i].role = AccentRoles[i - 1]
        /\ palette.baseColor = palette.colors[1].hex

\* C6 witness: a six-colour palette from a given base colour.
C6_Witness ==
    /\ Returned
    /\ options.baseColor = JsString(<<"#","3","4","9","8","d","b">>)
    /\ Len(palette.colors) = 6
    /\ palette.colors[1].hsl = Hsl(204, 70, 53)
    /\ palette.colors[6].role = "accent-5"

\* A well-formed hex string without uppercase digits.
WellFormedLowerHex(v) == WellFormedHex(v) /\ toLowerCase(v.str) = v.str

\* C7: for a well-formed lowercase base colour, the hex of the first colour
\* and the baseColor field of the returned palette are the baseColor passed.
C7_FirstElementIdentity ==
    (Returned /\ WellFormedLowerHex(options.baseColor)) =>
        /\ palette.colors[1].hex = options.baseColor.str
        /\ palette.baseColor = options.baseColor.str

\* Largest difference of a channel between two RGB triples.
ChannelError(a, b) ==
    Max(Abs(a.r - b.r), Max(Abs(a.g - b.g), Abs(a.b - b.b)))

\* C8 as stated: hslToRgb of the rounded rgbToHsl is within 1 of the
\* original in every channel.
C8_RoundTripWithin1 ==
    convBack # NoRgb => ChannelError(convIn, convBack) <= 1

\* C8 amended: hslToRgb of the rounded rgbToHsl is within 5 of the original
\* in every channel.
C8_RoundTripWithin5 ==
    convBack # NoRgb => ChannelError(convIn, convBack) <= 5

\* C8 witness: a round trip that is off by exactly 5.
C8_Witness ==
    /\ convIn = Rgb(2, 228, 230)
    /\ convHsl = Hsl(181, 98, 45)
    /\ convBack # NoRgb
    /\ ChannelError(convIn, convBack) = 5

\* C9: no call of generatePalette throws.
C9_NeverThrows == pc = "returned" => ~palette.threw

HslSequence(p) == [i \in DOMAIN p.colors |-> p.colors[i].hsl]
RoleSequence(p) == [i \in DOMAIN p.colors |-> p.colors[i].role]

\* The call of the README example: triadic, count 4, base colour #3498db.
ReadmeExampleCall ==
    /\ Returned
    /\ options.harmony = JsString(HTriadic)
    /\ options.count = JsNumber(4)
    /\ options.baseColor = JsString(<<"#","3","4","9","8","d","b">>)

\* C11: the README example: a triadic palette of 4 colours from #3498db is
\* (204,70,53), (324,70,53), (84,70,53), (324,55,68) with roles primary,
\* accent-1, accent-2, accent-3; the fourth colour varies the second one.
C11_ReadmeTriadic ==
    ReadmeExampleCall =>
        /\ HslSequence(palette) = <<Hsl(204, 70, 53), Hsl(324, 70, 53),
                                    Hsl(84, 70, 53), Hsl(324, 55, 68)>>
        /\ RoleSequence(palette) = <<"primary", "accent-1", "accent-2", "accent-3">>

\* The angle a call uses: options.angle, or the default 45.
AngleUsed == IF options.angle.type = "undefined" THEN 45 ELSE options.angle.num

\* C12: in a custom palette the colour at index i, 1 <= i < count, has the
\* hue in [0, 360) that is congruent to base hue + angle * i modulo 360,
\* for negative, zero and large angles alike.
C12_CustomHue ==
    (Returned /\ palette.harmony = HCustom) =>
        \A i \in 1..(Len(palette.colors) - 1) :
            /\ palette.colors[i + 1].hsl.h >= 0
            /\ palette.colors[i + 1].hsl.h < 360
            /\ palette.colors[i + 1].hsl.h =
                   (palette.colors[1].hsl.h + AngleUsed * i) % 360

\* C12 witness: six custom colours at the negative angle -30 from #808080
\* (hue 0): the hues wrap below zero to 330, 300, ...
C12_Witness ==
    /\ Returned
    /\ palette.harmony = HCustom
    /\ options.angle = JsNumber(0 - 30)
    /\ options.baseColor = JsString(<<"#","8","0","8","0","8","0">>)
    /\ Len(palette.colors) = 6
    /\ palette.colors[2].hsl.h = 330
    /\ palette.colors[6].hsl.h = 210

\* The five cyclic anchor strategies as the claim tabulates them: anchor
\* offsets, saturation decrement and floor, lightness increment and ceiling.
CyclicTable(harmony) ==
    CASE harmony = HTriadic ->
           [offsets |-> <<0, 120, 240>>, ds |-> 15, floor |-> 30, dl |-> 15, ceil |-> 75]
      [] harmony = HSplitComplementary ->
           [offsets |-> <<0, 150, 210>>, ds |-> 20, floor |-> 30, dl |-> 10, ceil |-> 80]
      [] harmony = HTetradic ->
           [offsets |-> <<0, 60, 180, 240>>, ds |-> 15, floor |-> 30, dl |-> 12, ceil |-> 75]
      [] harmony = HSquare ->
           [offsets |-> <<0, 90, 180, 270>>, ds |-> 20, floor |-> 30, dl |-> 15, ceil |-> 75]
      [] harmony = HDoubleComplementary ->
           [offsets |-> <<0, 30, 180, 210>>, ds |-> 15, floor |-> 30, dl |-> 10, ceil |-> 80]

CyclicHarmonies ==
    {HTriadic, HSplitComplementary, HTetradic, HSquare, HDoubleComplementary}

\* The base colour of a returned palette: hexToHsl of the given baseColor,
\* else the random base, which is the first colour.
BaseOfCall ==
    IF Truthy(options.baseColor) THEN hexToHsl(options.baseColor.str)
    ELSE palette.colors[1].hsl

\* The colour the claim prescribes at 0-based index i of a cyclic palette.
CyclicExpected(t, i) ==
    LET k == Len(t.offsets)
        from == palette.colors[(i % k) + 1].hsl
    IN  IF i < k
        THEN Hsl((BaseOfCall.h + t.offsets[i + 1]) % 360, BaseOfCall.s, BaseOfCall.l)
        ELSE Hsl(from.h, Max(t.floor, from.s - t.ds), Min(t.ceil, from.l + t.dl))

\* C14: in the five cyclic anchor strategies every colour at index
\* i < min(k, count) is the base with its hue replaced by base hue + offset i
\* reduced into [0, 360); every overflow colour at index i >= k has the hue
\* of colour i mod k, saturation max(floor, s - ds) and lightness
\* min(ceil, l + dl) of that colour.
C14_CyclicAnchors ==
    (Returned /\ palette.harmony \in CyclicHarmonies) =>
        \A i \in 0..(Len(palette.colors) - 1) :
            palette.colors[i + 1].hsl = CyclicExpected(CyclicTable(palette.harmony), i)

\* The harmonies whose colours depend neither on count nor on randomHsl.
PrefixStableHarmonies ==
    {HComplementary, HAnalogous, HTriadic, HSplitComplementary, HTetradic,
     HSquare, HDoubleComplementary, HCustom}

\* The same call with count c + 1, where c is the count of the palette.
NextCountCall == [options EXCEPT !.count = JsNumber(palette.count + 1)]

\* C15: for every harmony other than monochromatic and random, with the same
\* baseColor and angle, the colours returned for count c, 2 <= c <= 5, are
\* the first c colours returned for count c + 1.
C15_PrefixStable ==
    (/\ Returned
     /\ palette.harmony \in PrefixStableHarmonies
     /\ Truthy(options.baseColor)
     /\ palette.count <= 5) =>
        palette.colors =
            SubSeq(generatePalette(NextCountCall, <<>>).colors, 1, palette.count)

\* C15 witness: two tetradic colours, fewer than the four anchors, which are
\* the first two of the three returned for count 3.
C15_Witness ==
    /\ Returned
    /\ palette.harmony = HTetradic
    /\ options.baseColor = JsString(<<"#","3","4","9","8","d","b">>)
    /\ palette.count = 2
    /\ HslSequence(palette) = <<Hsl(204, 70, 53), Hsl(264, 70, 53)>>
    /\ Len(generatePalette(NextCountCall, <<>>).colors) = 3

\* The harmony the handled request carries is not one of HARMONY_TYPES
\* (an absent or empty query parameter means 'random').
RequestHarmonyUnrecognized ==
    IF request.route = "path"
    THEN ~includes(HARMONY_TYPES, toLowerCase(request.param))
    ELSE /\ Truthy(request.query.harmony)
         /\ \/ request.query.harmony.type # "string"
            \/ ~includes(HARMONY_TYPES, toLowerCase(request.query.harmony.str))

\* C13: GET /api/palette/:harmony answers 400 with the list of valid
\* identifiers, generating no palette, exactly when the lowercased path
\* parameter is not in HARMONY_TYPES; GET /api/palette never rejects a
\* harmony value and answers an unrecognized one with a palette of the
\* random strategy.
C13_RouteValidation ==
    pc = "responded" =>
        /\ request.route = "path" =>
               ((/\ response.status = 400
                 /\ response.validTypes = HARMONY_TYPES
                 /\ palette = NoPalette)
                <=> RequestHarmonyUnrecognized)
        /\ request.route = "query" =>
               /\ response.status # 400
               /\ (RequestHarmonyUnrecognized /\ ~routeThrows(request.query)) =>
                      /\ response.status = 200
                      /\ \A i \in 2..Len(response.body.colors) :
                             response.body.colors[i].hsl \in RandomHslSamples

====
